---- MODULE Spec2Model ----
(* The event-stream client of fintech-cli: the `connect` command            *)
(* (src/pkg/cmd/events.go, connectCmd) and the `debug listen` command       *)
(* (src/unnamed/part_001, debugListenCmd).  Each session has a control task *)
(* (the body of Run) and a reader task (the goroutine around ReadMessage),  *)
(* sharing one websocket connection, the `done` channel and the buffered    *)
(* `interrupt` channel.                                                     *)
EXTENDS Integers, Sequences, FiniteSets, TLC

(* ------------------------------------------------------------------ *)
(* Bounds of the model                                                *)
(* ------------------------------------------------------------------ *)
MaxFrames == 2

MaxSignals == 2

(* ------------------------------------------------------------------ *)
(* Strings that the code searches in are sequences of characters      *)
(* ------------------------------------------------------------------ *)
EmptyStr == << >>

\* strings.Contains(s, substr)
Contains(s, sub) ==
    \E i \in 1..(Len(s) - Len(sub) + 1) : SubSeq(s, i, i + Len(sub) - 1) = sub

(* ------------------------------------------------------------------ *)
(* Inbound frames: the bytes of one websocket message, by JSON shape  *)
(*   garbage : not JSON                                               *)
(*   array   : JSON, but not an object                                *)
(*   null    : the JSON literal null                                  *)
(*   object  : a JSON object; tkind says what its "type" member is    *)
(*             (absent, a number, a string tval), idk what            *)
(*             data.id is (absent, or the string idv)                 *)
(* ------------------------------------------------------------------ *)
Frame(shape, tkind, tval, idk, idv) ==
    [shape |-> shape, tkind |-> tkind, tval |-> tval, idk |-> idk, idv |-> idv]

Garbage == Frame("garbage", "absent", EmptyStr, "absent", "")

NullFrame == Frame("null", "absent", EmptyStr, "absent", "")

Frames ==
    { Garbage,
      NullFrame,
      Frame("array", "absent", EmptyStr, "absent", ""),
      Frame("object", "absent", EmptyStr, "absent", ""),
      Frame("object", "number", EmptyStr, "string", "evt_2"),
      Frame("object", "string", <<"p", "a">>, "string", "evt_1"),
      Frame("object", "string", <<"a", "p">>, "absent", "") }

Filters == { EmptyStr, <<"p", "a">>, <<"a">> }

Triggers == { "", "ping" }

\* json.Unmarshal(message, &event) with event a map[string]interface{}:
\* an object fills the map, null leaves it nil without an error, anything
\* else is an error.
UnmarshalOk(f) == f.shape \in {"object", "null"}

\* eventType, _ := event["type"].(string)
EventType(f) == IF f.shape = "object" /\ f.tkind = "string" THEN f.tval ELSE EmptyStr

\* the id of the compact line: event["data"].(map)["id"].(string), else ""
EventId(f) == IF f.shape = "object" /\ f.idk = "string" THEN f.idv ELSE ""

\* Variant: the filter test negated.
PassesFilterInverted(f, flt) == flt /= EmptyStr /\ ~Contains(EventType(f), flt)

\* filterType != "" && !strings.Contains(eventType, filterType)  => skipped
PassesFilter(f, flt) == ~(flt /= EmptyStr /\ ~Contains(EventType(f), flt))

\* The line printed for a decoded event (the timestamp is left out)
ListenLine(f, vb) ==
    IF vb THEN [mode |-> "verbose", type |-> EventType(f), payload |-> f]
          ELSE [mode |-> "compact", type |-> EventType(f), payload |-> EventId(f)]

\* connect prints every message as it is: "< %s"
ConnectLine(f) == [mode |-> "raw", type |-> EmptyStr, payload |-> f]

(* ------------------------------------------------------------------ *)
(* State                                                              *)
(* ------------------------------------------------------------------ *)
VARIABLES
    cmd,          \* "connect" or "listen": which command runs
    trigger,      \* connect's --trigger flag ("" when not given)
    filterType,   \* listen's --filter flag (EmptyStr when not given)
    verbose,      \* listen's --verbose flag
    ctlPc,        \* position of the control task (the body of Run)
    rdPc,         \* position of the reader goroutine
    msg,          \* the message ReadMessage last returned to the reader
    conn,         \* "none", "open", "closed" (conn.Close() has run)
    notified,     \* signal.Notify(interrupt, os.Interrupt) has run
    interrupt,    \* number of signals buffered in the interrupt channel
    doneClosed,   \* close(done) has run
    recvEnd,      \* how the reader's last ReadMessage failed ("none" if not)
    received,     \* every frame ReadMessage has returned, in order
    rendered,     \* every event line printed, in order
    logged,       \* the other lines printed (errors and notices)
    triggerSent,  \* WriteMessage(TextMessage, trigger) calls made
    closeFrames,  \* WriteMessage(CloseMessage, ...) calls made
    waits,        \* bounded waits (select on done / time.After) entered
    signals,      \* interrupt signals delivered to the process so far
    exitCode,     \* -1 while the process runs, else its exit status
    writing,      \* the WriteMessage calls in progress: "trigger", "close"
    replay,       \* the state of a `webhooks replay` run
    repl          \* the state of a `debug repl` run

vars ==
    << cmd, trigger, filterType, verbose, ctlPc, rdPc, msg, conn, notified,
       interrupt, doneClosed, recvEnd, received, rendered, logged,
       triggerSent, closeFrames, waits, signals, exitCode, writing,
       replay, repl >>

config == << cmd, trigger, filterType, verbose >>

\* the other commands, which a stream session never touches
tools == << replay, repl >>

\* `webhooks replay` and `debug repl` before they are started
NotStarted == [pc |-> "none"]

\* interrupt := make(chan os.Signal, 1)
InterruptCap == 1

\* the exit status of the process once Run has returned
ExitStatusOnReturn == 0

\* log.Fatal exits with status 1
FatalStatus == 1

Alive == ctlPc \notin {"exited", "killed"}

Init ==
    /\ cmd \in {"connect", "listen"}
    /\ trigger \in (IF cmd = "connect" THEN Triggers ELSE {""})
    /\ filterType \in (IF cmd = "listen" THEN Filters ELSE {EmptyStr})
    /\ verbose \in (IF cmd = "listen" THEN BOOLEAN ELSE {FALSE})
    /\ ctlPc = "dial"
    /\ rdPc = "idle"
    /\ msg = Garbage
    /\ conn = "none"
    /\ notified = FALSE
    /\ interrupt = 0
    /\ doneClosed = FALSE
    /\ recvEnd = "none"
    /\ received = << >>
    /\ rendered = << >>
    /\ logged = {}
    /\ triggerSent = 0
    /\ closeFrames = 0
    /\ waits = 0
    /\ signals = 0
    /\ exitCode = -1
    /\ writing = {}
    /\ replay = NotStarted
    /\ repl = NotStarted

(* ------------------------------------------------------------------ *)
(* Control task                                                       *)
(* ------------------------------------------------------------------ *)

\* websocket.DefaultDialer.Dial succeeds; defer conn.Close() is registered
DialOk ==
    /\ ctlPc = "dial"
    /\ conn' = "open"
    /\ ctlPc' = IF cmd = "connect" THEN "spawn" ELSE "notify"
    /\ UNCHANGED << config, tools, writing, rdPc, msg, notified, interrupt, doneClosed, recvEnd,
                    received, rendered, logged, triggerSent, closeFrames,
                    waits, signals, exitCode >>

\* What a failed Dial leads to: connect calls log.Fatal (exit status 1),
\* listen prints the failure and returns from Run.
DialFailOutcome(c) ==
    IF c = "connect" THEN [pc |-> "exited", code |-> FatalStatus]
                     ELSE [pc |-> "returned", code |-> -1]

DialFail ==
    /\ ctlPc = "dial"
    /\ ctlPc' = DialFailOutcome(cmd).pc
    /\ exitCode' = DialFailOutcome(cmd).code
    /\ logged' = logged \cup {"dial-failed"}
    /\ UNCHANGED << config, tools, writing, rdPc, msg, conn, notified, interrupt, doneClosed,
                    recvEnd, received, rendered, triggerSent, closeFrames,
                    waits, signals >>

\* go func() { defer close(done); for { ... } }()
StartReader ==
    /\ ctlPc = "spawn"
    /\ rdPc' = "read"
    /\ ctlPc' = IF cmd = "connect" THEN "trigger" ELSE "select"
    /\ UNCHANGED << config, tools, writing, msg, conn, notified, interrupt, doneClosed, recvEnd,
                    received, rendered, logged, triggerSent, closeFrames,
                    waits, signals, exitCode >>

\* Variant: the trigger is sent whether configured or not.
TriggerWantedAlways(t) == TRUE

\* if trigger != "" { ... }
TriggerWanted(t) == t /= ""

\* Variant: the trigger is written from a goroutine of its own.
TriggerSendAsync ==
    /\ ctlPc = "trigger"
    /\ TriggerWanted(trigger)
    /\ triggerSent' = triggerSent + 1
    /\ writing' = writing \cup {"trigger"}
    /\ ctlPc' = "notify"
    /\ UNCHANGED << config, tools, rdPc, msg, conn, notified, interrupt,
                    doneClosed, recvEnd, received, rendered, logged,
                    closeFrames, waits, signals, exitCode >>

\* c.WriteMessage(websocket.TextMessage, []byte(trigger)) is called
TriggerSend ==
    /\ ctlPc = "trigger"
    /\ TriggerWanted(trigger)
    /\ triggerSent' = triggerSent + 1
    /\ writing' = writing \cup {"trigger"}
    /\ ctlPc' = "triggering"
    /\ UNCHANGED << config, tools, rdPc, msg, conn, notified, interrupt,
                    doneClosed, recvEnd, received, rendered, logged,
                    closeFrames, waits, signals, exitCode >>

\* Variant: a failed trigger write is fatal (log.Fatal).
TriggerReturnFatal ==
    /\ ctlPc = "triggering"
    /\ writing' = writing \ {"trigger"}
    /\ \E ok \in BOOLEAN :
          /\ logged' = IF ok THEN logged ELSE logged \cup {"write-error"}
          /\ ctlPc' = IF ok THEN "notify" ELSE "exited"
          /\ exitCode' = IF ok THEN exitCode ELSE FatalStatus
    /\ UNCHANGED << config, tools, rdPc, msg, conn, notified, interrupt,
                    doneClosed, recvEnd, received, rendered, triggerSent,
                    closeFrames, waits, signals >>

\* the trigger write returns: nil, or an error that is logged as
\* "write-error:"; either way Run goes on to signal.Notify
TriggerReturn ==
    /\ ctlPc = "triggering"
    /\ writing' = writing \ {"trigger"}
    /\ \E ok \in BOOLEAN :
          logged' = IF ok THEN logged ELSE logged \cup {"write-error"}
    /\ ctlPc' = "notify"
    /\ UNCHANGED << config, tools, rdPc, msg, conn, notified, interrupt,
                    doneClosed, recvEnd, received, rendered, triggerSent,
                    closeFrames, waits, signals, exitCode >>

TriggerSkip ==
    /\ ctlPc = "trigger"
    /\ ~TriggerWanted(trigger)
    /\ ctlPc' = "notify"
    /\ UNCHANGED << config, tools, writing, rdPc, msg, conn, notified, interrupt, doneClosed,
                    recvEnd, received, rendered, logged, triggerSent,
                    closeFrames, waits, signals, exitCode >>

\* interrupt := make(chan os.Signal, 1); signal.Notify(interrupt, os.Interrupt)
Notify ==
    /\ ctlPc = "notify"
    /\ notified' = TRUE
    /\ ctlPc' = IF cmd = "connect" THEN "select" ELSE "spawn"
    /\ UNCHANGED << config, tools, writing, rdPc, msg, conn, interrupt, doneClosed, recvEnd,
                    received, rendered, logged, triggerSent, closeFrames,
                    waits, signals, exitCode >>

\* Variant: the done branch also writes a close frame.
SelectDoneSendsClose ==
    /\ ctlPc = "select"
    /\ doneClosed
    /\ closeFrames' = closeFrames + 1
    /\ logged' = IF cmd = "listen" THEN logged \cup {"server-closed"} ELSE logged
    /\ ctlPc' = "return"
    /\ UNCHANGED << config, tools, writing, rdPc, msg, conn, notified, interrupt, doneClosed,
                    recvEnd, received, rendered, triggerSent, waits, signals,
                    exitCode >>

\* select: case <-done.  connect returns; listen prints a notice first.
SelectDone ==
    /\ ctlPc = "select"
    /\ doneClosed
    /\ logged' = IF cmd = "listen" THEN logged \cup {"server-closed"} ELSE logged
    /\ ctlPc' = "return"
    /\ UNCHANGED << config, tools, writing, rdPc, msg, conn, notified, interrupt, doneClosed,
                    recvEnd, received, rendered, triggerSent, closeFrames,
                    waits, signals, exitCode >>

\* Variant: the connection is released before the close frame is written.
SelectInterruptClosesFirst ==
    /\ ctlPc = "select"
    /\ interrupt > 0
    /\ interrupt' = interrupt - 1
    /\ logged' = logged \cup {"disconnecting"}
    /\ conn' = "closed"
    /\ ctlPc' = "writeClose"
    /\ writing' = writing \cup {"close"}
    /\ UNCHANGED << config, tools, rdPc, msg, notified, doneClosed, recvEnd,
                    received, rendered, triggerSent, closeFrames, waits,
                    signals, exitCode >>

\* select: case <-interrupt.  "Disconnecting..." is printed.
SelectInterrupt ==
    /\ ctlPc = "select"
    /\ interrupt > 0
    /\ interrupt' = interrupt - 1
    /\ logged' = logged \cup {"disconnecting"}
    /\ ctlPc' = "writeClose"
    /\ writing' = writing \cup {"close"}
    /\ UNCHANGED << config, tools, rdPc, msg, conn, notified, doneClosed, recvEnd,
                    received, rendered, triggerSent, closeFrames, waits,
                    signals, exitCode >>

\* conn.WriteMessage(CloseMessage, ...) returned nil: enter the bounded wait
\* (after a close frame from the peer the library has already echoed a close,
\* and every later write returns ErrCloseSent)
WriteCloseOk ==
    /\ ctlPc = "writeClose"
    /\ recvEnd /= "normal"
    /\ closeFrames' = closeFrames + 1
    /\ waits' = waits + 1
    /\ ctlPc' = "wait"
    /\ writing' = writing \ {"close"}
    /\ UNCHANGED << config, tools, rdPc, msg, conn, notified, interrupt, doneClosed,
                    recvEnd, received, rendered, logged, triggerSent, signals,
                    exitCode >>

\* conn.WriteMessage(CloseMessage, ...) returned an error: Run returns
\* (connect logs "write-close:", listen prints nothing)
WriteCloseFail ==
    /\ ctlPc = "writeClose"
    /\ closeFrames' = closeFrames + 1
    /\ logged' = IF cmd = "connect" THEN logged \cup {"write-close"} ELSE logged
    /\ ctlPc' = "return"
    /\ writing' = writing \ {"close"}
    /\ UNCHANGED << config, tools, rdPc, msg, conn, notified, interrupt, doneClosed,
                    recvEnd, received, rendered, triggerSent, waits, signals,
                    exitCode >>

\* inner select: case <-done
WaitDone ==
    /\ ctlPc = "wait"
    /\ doneClosed
    /\ ctlPc' = "return"
    /\ UNCHANGED << config, tools, writing, rdPc, msg, conn, notified, interrupt, doneClosed,
                    recvEnd, received, rendered, logged, triggerSent,
                    closeFrames, waits, signals, exitCode >>

\* Variant: the inner select has no timeout case.
WaitTimeoutNever == FALSE /\ UNCHANGED vars

\* Variant: after the wait the outer for loop selects again.
WaitTimeoutLoops ==
    /\ ctlPc = "wait"
    /\ ctlPc' = "select"
    /\ UNCHANGED << config, tools, writing, rdPc, msg, conn, notified, interrupt, doneClosed,
                    recvEnd, received, rendered, logged, triggerSent,
                    closeFrames, waits, signals, exitCode >>

\* inner select: case <-time.After(time.Second)
WaitTimeout ==
    /\ ctlPc = "wait"
    /\ ctlPc' = "return"
    /\ UNCHANGED << config, tools, writing, rdPc, msg, conn, notified, interrupt, doneClosed,
                    recvEnd, received, rendered, logged, triggerSent,
                    closeFrames, waits, signals, exitCode >>

\* Run returns: the deferred conn.Close() runs
Return ==
    /\ ctlPc = "return"
    /\ conn' = "closed"
    /\ ctlPc' = "returned"
    /\ UNCHANGED << config, tools, writing, rdPc, msg, notified, interrupt, doneClosed, recvEnd,
                    received, rendered, logged, triggerSent, closeFrames,
                    waits, signals, exitCode >>

\* the process exits after Run has returned; every goroutine ends with it
Exit ==
    /\ ctlPc = "returned"
    /\ ctlPc' = "exited"
    /\ exitCode' = ExitStatusOnReturn
    /\ UNCHANGED << config, tools, writing, rdPc, msg, conn, notified, interrupt, doneClosed,
                    recvEnd, received, rendered, logged, triggerSent,
                    closeFrames, waits, signals >>

(* ------------------------------------------------------------------ *)
(* Reader task                                                        *)
(* ------------------------------------------------------------------ *)

\* conn.ReadMessage() returns a message
ReaderReceive ==
    /\ Alive
    /\ rdPc = "read"
    /\ conn = "open"
    /\ Len(received) < MaxFrames
    /\ \E f \in Frames :
          /\ msg' = f
          /\ received' = Append(received, f)
    /\ rdPc' = "got"
    /\ UNCHANGED << config, tools, writing, ctlPc, conn, notified, interrupt, doneClosed,
                    recvEnd, rendered, logged, triggerSent, closeFrames, waits,
                    signals, exitCode >>

\* Variant: a message that does not decode ends the loop.
HandleStopsOnBad(c, f, flt, vb) ==
    IF c = "connect"
    THEN [lines |-> << ConnectLine(f) >>, next |-> "read"]
    ELSE IF ~UnmarshalOk(f) THEN [lines |-> << >>, next |-> "failed"]
    ELSE IF ~PassesFilter(f, flt) THEN [lines |-> << >>, next |-> "read"]
    ELSE [lines |-> << ListenLine(f, vb) >>, next |-> "read"]

\* Variant: connect decodes too, and drops what does not decode.
HandleConnectDecodes(c, f, flt, vb) ==
    IF ~UnmarshalOk(f) THEN [lines |-> << >>, next |-> "read"]
    ELSE IF c = "connect" THEN [lines |-> << ConnectLine(f) >>, next |-> "read"]
    ELSE IF ~PassesFilter(f, flt) THEN [lines |-> << >>, next |-> "read"]
    ELSE [lines |-> << ListenLine(f, vb) >>, next |-> "read"]

\* Variant: an event without a string type is skipped like a malformed one.
HandleSkipsUntyped(c, f, flt, vb) ==
    IF c = "connect"
    THEN [lines |-> << ConnectLine(f) >>, next |-> "read"]
    ELSE IF ~UnmarshalOk(f) \/ f.tkind /= "string"
         THEN [lines |-> << >>, next |-> "read"]
    ELSE IF ~PassesFilter(f, flt) THEN [lines |-> << >>, next |-> "read"]
    ELSE [lines |-> << ListenLine(f, vb) >>, next |-> "read"]

\* What the reader does with a message: the lines it prints, and whether
\* the loop goes on.  listen decodes, filters and formats; connect prints
\* the bytes as they came.
Handle(c, f, flt, vb) ==
    IF c = "connect"
    THEN [lines |-> << ConnectLine(f) >>, next |-> "read"]
    ELSE IF ~UnmarshalOk(f) THEN [lines |-> << >>, next |-> "read"]
    ELSE IF ~PassesFilter(f, flt) THEN [lines |-> << >>, next |-> "read"]
    ELSE [lines |-> << ListenLine(f, vb) >>, next |-> "read"]

ReaderHandle ==
    /\ Alive
    /\ rdPc = "got"
    /\ rendered' = rendered \o Handle(cmd, msg, filterType, verbose).lines
    /\ rdPc' = Handle(cmd, msg, filterType, verbose).next
    /\ UNCHANGED << config, tools, writing, ctlPc, msg, conn, notified, interrupt, doneClosed,
                    recvEnd, received, logged, triggerSent, closeFrames,
                    waits, signals, exitCode >>

\* How ReadMessage can fail: with a close frame of code 1000/1001 from the
\* peer ("normal"), with any other close code or an unexpected EOF, which
\* the library reports as close 1006 ("abnormal"), or with an error that is
\* no CloseError at all ("neterr"), the only one left once conn.Close() ran.
ReadErrors(c) == IF c = "open" THEN {"normal", "abnormal", "neterr"} ELSE {"neterr"}

\* The line printed when ReadMessage fails: connect logs every error;
\* listen prints only if websocket.IsUnexpectedCloseError(err, CloseGoingAway,
\* CloseNormalClosure), i.e. a CloseError with another code.
ReadErrorLines(c, kind) ==
    IF c = "connect" THEN {"read-error"}
    ELSE (IF kind = "abnormal" THEN {"connection-error"} ELSE {})

\* Variant: the loop returns without closing done (no defer).
ReaderFailNoSignal ==
    /\ Alive
    /\ rdPc = "read"
    /\ conn /= "none"
    /\ \E kind \in ReadErrors(conn) :
          /\ recvEnd' = kind
          /\ logged' = logged \cup ReadErrorLines(cmd, kind)
    /\ rdPc' = "done"
    /\ UNCHANGED << config, tools, writing, ctlPc, msg, conn, notified,
                    interrupt, doneClosed, received, rendered, triggerSent,
                    closeFrames, waits, signals, exitCode >>

\* Variant: done is closed but the loop does not return.
ReaderFailNoReturn ==
    /\ Alive
    /\ rdPc = "read"
    /\ conn /= "none"
    /\ \E kind \in ReadErrors(conn) :
          /\ recvEnd' = kind
          /\ logged' = logged \cup ReadErrorLines(cmd, kind)
    /\ doneClosed' = TRUE
    /\ rdPc' = "got"
    /\ UNCHANGED << config, tools, writing, ctlPc, msg, conn, notified, interrupt, received,
                    rendered, triggerSent, closeFrames, waits, signals,
                    exitCode >>

\* ReadMessage returns an error: the line is printed, the loop returns and
\* the deferred close(done) runs
ReaderFail ==
    /\ Alive
    /\ rdPc = "read"
    /\ conn /= "none"
    /\ \E kind \in ReadErrors(conn) :
          /\ recvEnd' = kind
          /\ logged' = logged \cup ReadErrorLines(cmd, kind)
    /\ doneClosed' = TRUE
    /\ rdPc' = "done"
    /\ UNCHANGED << config, tools, writing, ctlPc, msg, conn, notified, interrupt, received,
                    rendered, triggerSent, closeFrames, waits, signals,
                    exitCode >>

(* ------------------------------------------------------------------ *)
(* The interrupt signal                                               *)
(* ------------------------------------------------------------------ *)

\* A SIGINT while the channel is registered: signal.Notify's sender does
\* not block, so the signal is dropped when the buffer is full.
Enqueue(n) == IF n < InterruptCap THEN n + 1 ELSE n

SignalQueued ==
    /\ Alive
    /\ notified
    /\ signals < MaxSignals
    /\ signals' = signals + 1
    /\ interrupt' = Enqueue(interrupt)
    /\ UNCHANGED << config, tools, writing, ctlPc, rdPc, msg, conn, notified, doneClosed,
                    recvEnd, received, rendered, logged, triggerSent,
                    closeFrames, waits, exitCode >>

\* A SIGINT before signal.Notify has run: the Go runtime's default action
\* ends the process at once, deferred calls do not run.
SignalKills ==
    /\ Alive
    /\ ~notified
    /\ signals < MaxSignals
    /\ signals' = signals + 1
    /\ ctlPc' = "killed"
    /\ UNCHANGED << config, tools, writing, rdPc, msg, conn, notified, interrupt, doneClosed,
                    recvEnd, received, rendered, logged, triggerSent,
                    closeFrames, waits, exitCode >>

(* ------------------------------------------------------------------ *)
(* Specifications                                                     *)
(* ------------------------------------------------------------------ *)
Control ==
    \/ DialOk \/ DialFail \/ StartReader \/ TriggerSend \/ TriggerReturn
    \/ TriggerSkip
    \/ Notify \/ SelectDone \/ SelectInterrupt \/ WriteCloseOk
    \/ WriteCloseFail \/ WaitDone \/ WaitTimeout \/ Return \/ Exit

Reader == ReaderReceive \/ ReaderHandle \/ ReaderFail

Next ==
    \/ DialOk \/ DialFail \/ StartReader \/ TriggerSend \/ TriggerReturn
    \/ TriggerSkip
    \/ Notify \/ SelectDone \/ SelectInterrupt \/ WriteCloseOk
    \/ WriteCloseFail \/ WaitDone \/ WaitTimeout \/ Return \/ Exit
    \/ ReaderReceive \/ ReaderHandle \/ ReaderFail
    \/ SignalQueued \/ SignalKills

Spec == Init /\ [][Next]_vars

\* The control task is a running goroutine: whenever it can take a step
\* (a write returns, the one-second timer fires, Run returns) it does.
\* Nothing is assumed of the peer, the reader or the signals.
FairSpec == Spec /\ WF_vars(Control)

(* ------------------------------------------------------------------ *)
(* webhooks replay (src/unnamed/part_002, webhooksReplayCmd)          *)
(* ------------------------------------------------------------------ *)

\* everything a stream session is made of; the other commands leave it alone
stream ==
    << cmd, trigger, filterType, verbose, ctlPc, rdPc, msg, conn, notified,
       interrupt, doneClosed, recvEnd, received, rendered, logged,
       triggerSent, closeFrames, waits, signals, exitCode, writing >>

\* no stream session in this process
NoStream(c) ==
    /\ cmd = c
    /\ trigger = ""
    /\ filterType = EmptyStr
    /\ verbose = FALSE
    /\ ctlPc = "none"
    /\ rdPc = "idle"
    /\ msg = Garbage
    /\ conn = "none"
    /\ notified = FALSE
    /\ interrupt = 0
    /\ doneClosed = FALSE
    /\ recvEnd = "none"
    /\ received = << >>
    /\ rendered = << >>
    /\ logged = {}
    /\ triggerSent = 0
    /\ closeFrames = 0
    /\ waits = 0
    /\ signals = 0
    /\ exitCode = -1
    /\ writing = {}

\* A line typed on standard input is a sequence of words, the white space
\* between and around them left out.
Answers ==
    { << >>, <<"y">>, <<"Y">>, <<"n">>, <<"N">>, <<"yes">>, <<"y", "es">>,
      <<"n", "y">> }

\* fmt.Scanln(&response): response gets the first word of the line, if any;
\* that further words follow is an error, which the caller does not look at
Scanln(line) == IF line = << >> THEN "" ELSE Head(line)

\* strings.ToLower
ToLower(w) == CASE w = "Y" -> "y" [] w = "N" -> "n" [] OTHER -> w

ReplayInit ==
    /\ NoStream("replay")
    /\ repl = NotStarted
    /\ \E key \in {"", "sk_test"}, cz \in {"", "zone_cfg"},
          zf \in {"", "zone_flag"}, f \in BOOLEAN, id \in {"evt_1", "evt_2"} :
          replay = [pc |-> "checkKey", apiKey |-> key, cfgZone |-> cz,
                    zoneID |-> zf, force |-> f, eventID |-> id, zone |-> "",
                    line |-> << >>, response |-> "", calls |-> << >>,
                    out |-> "", status |-> -1]

\* apiKey == "": print the error and os.Exit(1)
ReplayCheckKey ==
    /\ replay.pc = "checkKey"
    /\ replay' = IF replay.apiKey = ""
                 THEN [replay EXCEPT !.pc = "exited", !.out = "no-key", !.status = 1]
                 ELSE [replay EXCEPT !.pc = "resolveZone"]
    /\ UNCHANGED << stream, repl >>

\* zone := viper.GetString("current_zone"); if zoneID != "" { zone = zoneID };
\* if zone == "" { print the error; return }
ReplayResolveZone ==
    /\ replay.pc = "resolveZone"
    /\ LET z == IF replay.zoneID /= "" THEN replay.zoneID ELSE replay.cfgZone
       IN replay' = IF z = ""
                    THEN [replay EXCEPT !.pc = "returned", !.out = "no-zone"]
                    ELSE [replay EXCEPT !.pc = "confirm", !.zone = z,
                                        !.out = "replaying"]
    /\ UNCHANGED << stream, repl >>

\* --force: the prompt is skipped
ReplayForced ==
    /\ replay.pc = "confirm"
    /\ replay.force
    /\ replay' = [replay EXCEPT !.pc = "call"]
    /\ UNCHANGED << stream, repl >>

\* the prompt is printed, one line is read, and anything but y cancels
ReplayPrompt ==
    /\ replay.pc = "confirm"
    /\ ~replay.force
    /\ \E line \in Answers :
          LET response == Scanln(line)
          IN replay' = IF ToLower(response) /= "y"
                       THEN [replay EXCEPT !.pc = "returned", !.line = line,
                                           !.response = response,
                                           !.out = "cancelled"]
                       ELSE [replay EXCEPT !.pc = "call", !.line = line,
                                           !.response = response]
    /\ UNCHANGED << stream, repl >>

\* client.ReplayEvent(ctx, eventID, zone), which succeeds or fails
ReplayCall ==
    /\ replay.pc = "call"
    /\ \E ok \in BOOLEAN :
          replay' = [replay EXCEPT
                        !.pc = "returned",
                        !.calls = Append(@, << replay.eventID, replay.zone >>),
                        !.out = IF ok THEN "triggered" ELSE "failed"]
    /\ UNCHANGED << stream, repl >>

\* Run has returned: the process exits
ReplayExit ==
    /\ replay.pc = "returned"
    /\ replay' = [replay EXCEPT !.pc = "exited", !.status = ExitStatusOnReturn]
    /\ UNCHANGED << stream, repl >>

ReplayNext ==
    \/ ReplayCheckKey \/ ReplayResolveZone \/ ReplayForced \/ ReplayPrompt
    \/ ReplayCall \/ ReplayExit

ReplaySpec == ReplayInit /\ [][ReplayNext]_vars

(* ------------------------------------------------------------------ *)
(* debug repl (src/unnamed/part_001, debugReplCmd)                    *)
(* ------------------------------------------------------------------ *)
MaxLines == 3

\* an API key of n characters
Key(n) == [i \in 1..n |-> i]

KeyLens == {0, 3, 8, 12}

\* the lines typed at the prompt, already trimmed, as sequences of words
Lines ==
    { << >>, <<"exit">>, <<"quit">>, <<"help">>, <<"status">>,
      <<"exit", "now">>, <<"emit">>, <<"emit", "t">>, <<"zone">>,
      <<"zone", "z1">>, <<"zone", "z2">>, <<"foo">> }

\* apiKey[:8] and apiKey[len(apiKey)-4:]: slicing past the end of a string
\* is a run-time panic
SliceOk(key) == 8 <= Len(key) /\ 0 <= Len(key) - 4

Masked(key) == << SubSeq(key, 1, 8), SubSeq(key, Len(key) - 3, Len(key)) >>

ReplInit ==
    /\ NoStream("repl")
    /\ replay = NotStarted
    /\ \E n \in KeyLens, z \in { << >>, <<"zone_cfg">> } :
          repl = [pc |-> "checkKey", apiKey |-> Key(n), zone |-> z,
                  nread |-> 0, out |-> [kind |-> "none"], status |-> -1]

\* apiKey == "": print the error and os.Exit(1); else print the banner
ReplStart ==
    /\ repl.pc = "checkKey"
    /\ repl' = IF repl.apiKey = << >>
               THEN [repl EXCEPT !.pc = "exited", !.status = 1,
                                 !.out = [kind |-> "no-key"]]
               ELSE [repl EXCEPT !.pc = "prompt",
                                 !.out = [kind |-> "banner", zone |-> repl.zone]]
    /\ UNCHANGED << stream, replay >>

\* What one line does: the new position, zone and output
Dispatch(r, line) ==
    IF line = << >> THEN r
    ELSE IF line \in { <<"exit">>, <<"quit">> }
    THEN [r EXCEPT !.pc = "returned", !.out = [kind |-> "goodbye"]]
    ELSE IF line = <<"help">> THEN [r EXCEPT !.out = [kind |-> "help"]]
    ELSE IF line = <<"status">>
    THEN IF SliceOk(r.apiKey)
         THEN [r EXCEPT !.out = [kind |-> "status", key |-> Masked(r.apiKey),
                                 zone |-> r.zone]]
         ELSE [r EXCEPT !.pc = "panicked", !.status = 2,
                        !.out = [kind |-> "panic"]]
    ELSE IF Head(line) = "emit" /\ Len(line) >= 2
    THEN [r EXCEPT !.out = [kind |-> "emitting", type |-> line[2]]]
    ELSE IF Head(line) = "zone" /\ Len(line) >= 2
    THEN [r EXCEPT !.zone = Tail(line),
                   !.out = [kind |-> "switched", zone |-> Tail(line)]]
    ELSE [r EXCEPT !.out = [kind |-> "unknown"]]

\* scanner.Scan() returns a line, which is trimmed and dispatched
ReplLine ==
    /\ repl.pc = "prompt"
    /\ repl.nread < MaxLines
    /\ \E line \in Lines :
          repl' = Dispatch([repl EXCEPT !.nread = @ + 1], line)
    /\ UNCHANGED << stream, replay >>

\* scanner.Scan() returns false: end of input, the loop breaks
ReplEof ==
    /\ repl.pc = "prompt"
    /\ repl' = [repl EXCEPT !.pc = "returned"]
    /\ UNCHANGED << stream, replay >>

\* Run has returned: the process exits
ReplExit ==
    /\ repl.pc = "returned"
    /\ repl' = [repl EXCEPT !.pc = "exited", !.status = ExitStatusOnReturn]
    /\ UNCHANGED << stream, replay >>

ReplNext == ReplStart \/ ReplLine \/ ReplEof \/ ReplExit

ReplSpec == ReplInit /\ [][ReplNext]_vars

(* ------------------------------------------------------------------ *)
(* Properties                                                         *)
(* ------------------------------------------------------------------ *)

\* The frames the reader has finished with: all it received, but the one
\* still in its hands.
Processed ==
    IF rdPc = "got" THEN SubSeq(received, 1, Len(received) - 1) ELSE received

\* A frame that decodes into the event map
Decodes(f) == f.shape \in {"object", "null"}

\* A frame that does not
Malformed(f) == f.shape \in {"garbage", "array"}

\* A decoded frame whose type contains the filter (any, without a filter)
Selected(f) ==
    /\ Decodes(f)
    /\ \/ filterType = EmptyStr
       \/ \E i \in 1..Len(EventType(f)) : \E j \in i..Len(EventType(f)) :
              SubSeq(EventType(f), i, j) = filterType

RECURSIVE ExpectedLines(_)
ExpectedLines(fs) ==
    IF fs = << >> THEN << >>
    ELSE LET rest == ExpectedLines(SubSeq(fs, 1, Len(fs) - 1))
             f == fs[Len(fs)]
         IN IF Selected(f) THEN Append(rest, ListenLine(f, verbose)) ELSE rest

Closing == "disconnecting" \in logged /\ waits >= 1

Done == ctlPc \in {"returned", "exited"}

\* C3: once the control task has received the cancellation it reaches Done,
\* whatever the peer and the reader do.
C3_CancellationReachesDone == (ctlPc = "writeClose") ~> Done

C3_Witness ==
    /\ Done
    /\ closeFrames = 1
    /\ waits = 1
    /\ ~doneClosed
    /\ rdPc = "read"

C5_SecondSignalIdempotent == closeFrames <= 1 /\ waits <= 1

C5_Witness ==
    /\ signals >= 2
    /\ closeFrames = 1
    /\ waits = 1
    /\ ctlPc = "exited"
    /\ exitCode = 0

\* C6 as stated: when the reader has completed and the control task has not
\* begun handling a cancellation, the control task goes on to Done without
\* ever taking the cancellation branch, and no close frame is written.
C6_ReaderFirstNeverCloses ==
    [][(doneClosed /\ ctlPc = "select")
          => (ctlPc' \in {"select", "return"} /\ closeFrames' = 0)]_vars

\* C6 as amended: the same, when no cancellation signal is pending in the
\* interrupt channel as the select runs; and on every path that has not taken
\* the cancellation branch no close frame is written.
C6_ReaderFirstNoPendingSignal ==
    /\ [][(doneClosed /\ ctlPc = "select" /\ interrupt = 0 /\ ctlPc' /= ctlPc)
            => (ctlPc' = "return" /\ closeFrames' = 0)]_vars
    /\ []("disconnecting" \notin logged => closeFrames = 0)

C6_Witness ==
    /\ doneClosed
    /\ Done
    /\ signals >= 1
    /\ "disconnecting" \notin logged
    /\ recvEnd = "abnormal"
    /\ closeFrames = 0

\* C7: a failed dial starts no reader, sends nothing and ends the process
\* with a non-zero status; a session ended by an interrupt exits with 0.
C7_DialFailureExitsNonZero ==
    /\ "dial-failed" \in logged =>
          /\ rdPc = "idle"
          /\ triggerSent = 0
          /\ closeFrames = 0
          /\ ctlPc = "exited" => exitCode /= 0
    /\ ("disconnecting" \in logged /\ ctlPc = "exited") => exitCode = 0

\* C8: a receive ended by a normal close prints no error line; an error
\* line is printed only for an abnormal close.
C8_ErrorLineOnlyOnAbnormalClose ==
    /\ recvEnd = "normal" => logged \cap {"read-error", "connection-error"} = {}
    /\ logged \cap {"read-error", "connection-error"} /= {} => recvEnd = "abnormal"

\* The lifecycle state of the connection
ConnState ==
    IF conn = "none" THEN "Connecting"
    ELSE IF conn = "closed" THEN "Closed"
    ELSE IF ctlPc \in {"writeClose", "wait", "return"} THEN "Closing"
    ELSE "Open"

Rank(st) ==
    CASE st = "Connecting" -> 0 [] st = "Open" -> 1
      [] st = "Closing" -> 2 [] st = "Closed" -> 3

C10_TriggerOnceAfterOpen ==
    /\ triggerSent <= 1
    /\ triggerSent = 1 => (cmd = "connect" /\ trigger /= "" /\ conn /= "none")
    /\ (ctlPc = "trigger" /\ trigger /= "") => ENABLED TriggerSend

C10_Witness ==
    /\ triggerSent = 1
    /\ rdPc = "read"
    /\ received = << >>
    /\ conn = "open"

\* C11: the reader has signalled completion exactly when its loop has
\* ended; the step that ends the loop closes done, and is taken with done
\* not yet closed; after it the reader receives and renders nothing.
C11_ReaderSignalsOnceAtLoopEnd ==
    /\ [](doneClosed <=> rdPc = "done")
    /\ [][(rdPc' = "done" /\ rdPc /= "done")
            => (~doneClosed /\ doneClosed' /\ recvEnd' /= "none")]_vars
    /\ [][rdPc = "done"
            => /\ rdPc' = "done"
               /\ doneClosed'
               /\ recvEnd' = recvEnd
               /\ received' = received
               /\ rendered' = rendered]_vars

C11_Witness ==
    /\ rdPc = "done"
    /\ doneClosed
    /\ Len(received) >= 1
    /\ Len(rendered) >= 1
    /\ ctlPc = "select"

\* C12: in connect, the step on which the trigger write fails leaves the
\* connection open, the process running and the reader where it was, and
\* takes the control task on to signal.Notify and from there to its select
\* (unless a signal ends the process first); the reader can still receive.
C12_TriggerFailureNonFatal ==
    /\ [][(ctlPc = "triggering" /\ ctlPc' /= ctlPc /\ ctlPc' /= "killed")
            => /\ ctlPc' = "notify"
               /\ conn' = "open"
               /\ exitCode' = -1
               /\ rdPc' = rdPc]_vars
    /\ [][("write-error" \in logged /\ ctlPc = "notify" /\ ctlPc' /= ctlPc)
            => ctlPc' \in {"select", "killed"}]_vars
    /\ []((/\ "write-error" \in logged
           /\ Alive
           /\ conn = "open"
           /\ rdPc = "read"
           /\ Len(received) < MaxFrames) => ENABLED ReaderReceive)

C12_Witness ==
    /\ "write-error" \in logged
    /\ ctlPc = "select"
    /\ rdPc = "read"
    /\ Len(received) >= 1
    /\ Len(rendered) = Len(received)

\* C13: the trigger write and the close-frame write are never in progress
\* together, and only a step of the reader task receives a frame.
C13_WritesSerialized ==
    /\ [](Cardinality(writing) <= 1)
    /\ [][received' /= received => (rdPc = "read" /\ rdPc' = "got")]_vars

C13_Witness ==
    /\ cmd = "connect"
    /\ triggerSent = 1
    /\ writing = {"close"}
    /\ rdPc = "got"

\* The close-frame write has returned an error
CloseWriteFailed == closeFrames = 1 /\ waits = 0 /\ ctlPc /= "writeClose"

\* C14: a failed close-frame write is logged, and Run returns.
C14_FailedCloseWriteIsLogged ==
    CloseWriteFailed =>
        /\ "write-close" \in logged
        /\ ctlPc \in {"return", "returned", "exited"}

\* C15: a signal never ends a running reader task, and after a cancellation
\* the reader task ends: its loop returns, or the process exits.
C15_CooperativeCancellation ==
    /\ [][(signals' /= signals /\ rdPc \in {"read", "got"})
            => (rdPc' = rdPc /\ Alive')]_vars
    /\ (ctlPc = "writeClose") ~> (rdPc = "done" \/ ~Alive)

\* C16: a signal that arrives while the connection is open and the reader
\* has not completed is taken up by the control task (it is buffered for the
\* select and the process goes on), also while the trigger write is in
\* progress.
C16_SignalAfterOpenStartsClosing ==
    [][(signals' /= signals /\ conn = "open" /\ ~doneClosed
          /\ ctlPc \in {"spawn", "trigger", "triggering", "notify", "select"})
         => (ctlPc' /= "killed" /\ interrupt' = 1)]_vars

Untyped(f) == f.shape = "object" /\ f.tkind /= "string"

\* C18: in listen, the step that handles such an object goes back to the
\* receive; it prints a line with the empty type when no filter is set, and
\* nothing when a filter is set.
C18_UntypedEventHasEmptyType ==
    [][(cmd = "listen" /\ rdPc = "got" /\ Untyped(msg) /\ rdPc' /= rdPc)
          => /\ rdPc' = "read"
             /\ filterType = EmptyStr =>
                   /\ Len(rendered') = Len(rendered) + 1
                   /\ rendered'[Len(rendered')].type = EmptyStr
                   /\ SubSeq(rendered', 1, Len(rendered)) = rendered
             /\ filterType /= EmptyStr => rendered' = rendered]_vars

C18_Witness ==
    /\ cmd = "listen"
    /\ filterType = EmptyStr
    /\ rdPc = "read"
    /\ Len(received) >= 2
    /\ Untyped(received[1])
    /\ Len(rendered) = 2
    /\ rendered[1].type = EmptyStr

\* C19: ReplayEvent is called only with a zone resolved and either --force
\* or the answer y or Y at the prompt; with any other answer, or without a
\* zone, it is never called.
C19_ReplayOnlyWhenConfirmed ==
    /\ replay.calls /= << >> =>
          /\ replay.zone /= ""
          /\ replay.force \/ replay.line \in { <<"y">>, <<"Y">> }
    /\ Len(replay.calls) <= 1

\* C20: with a non-empty API key the REPL never stops but by exit, quit or
\* the end of input; status prints the masked key and the zone in force,
\* which is the one the last zone command set.
C20_ReplKeepsDispatching ==
    /\ repl.pc \in {"none", "checkKey", "prompt", "returned", "exited"}
    /\ (repl.pc = "exited" /\ repl.apiKey /= << >>) => repl.status = 0
    /\ (repl.pc /= "none" /\ repl.out.kind = "status") =>
          /\ repl.out.zone = repl.zone
          /\ repl.pc = "prompt"

====
